---- MODULE Spec2Model ----
(***************************************************************************)
(* Model of main.py of the clothing recommender: the session loop (main),  *)
(* one pipeline run (groupchat_product_recommendation_flow) and the pure    *)
(* helpers it uses.                                                         *)
(*                                                                          *)
(* Text is a sequence of tokens.  A token is a run of characters that the   *)
(* code's string operations never cut: the words "CHECKING PRODUCTS BASED   *)
(* ON" (which do not overlap themselves), the colon, the blank, a letter.   *)
(* str.upper, str.lower, str.strip, "in" and str.split are computed on the  *)
(* tokens as Python computes them on the characters.                        *)
(*                                                                          *)
(* A Python value is a record [t, s]: None is [t |-> "None"], a str is      *)
(* [t |-> "str", s |-> tokens].  A dict is a TLA+ record; a key the dict    *)
(* lacks is a field the record lacks.                                       *)
(***************************************************************************)
EXTENDS Integers, Sequences, FiniteSets, TLC

\* ------------------------------------------------------------------ bounds
MaxPieces == 2      \* pieces of text in one generated message
MaxReplies == 1     \* messages modelled after the first one in an exchange
MaxReads == 2       \* lines read by one session
MaxTranscript == 2  \* messages of a transcript handed to the extraction alone
MaxTranscriptPieces == 3  \* pieces of text in such a transcript, in all
MaxStarts == 3      \* times the program is started on the same directory

\* --------------------------------------------------------- program constants
max_round == 12

CHROMA_COLLECTION == "autogen-docs-test"

MARKER == "CHECKING PRODUCTS BASED ON"
marker_lc == "checking products based on"
SP == " "
COLON == ":"

\* ------------------------------------------------------------ Python values
PyNone == [t |-> "None", s |-> <<>>]
PyStr(toks) == [t |-> "str", s |-> toks]

\* bool(v) for None and str: None and "" are falsy
Truthy(v) == v.t = "str" /\ v.s # <<>>

\* dict.get(key, default)
Get(d, key, default) == IF key \in DOMAIN d THEN d[key] ELSE default

\* ------------------------------------------------------------ str operations
UpperTok(c) ==
  CASE c = marker_lc -> MARKER
    [] c = "a" -> "A"
    [] c = "exit" -> "EXIT"
    [] c = "Quit" -> "QUIT"
    [] OTHER -> c

LowerTok(c) ==
  CASE c = MARKER -> marker_lc
    [] c = "A" -> "a"
    [] c = "EXIT" -> "exit"
    [] c = "Quit" -> "quit"
    [] c = "QUIT" -> "quit"
    [] OTHER -> c

\* str.upper(), str.lower()
Upper(s) == [i \in 1..Len(s) |-> UpperTok(s[i])]
Lower(s) == [i \in 1..Len(s) |-> LowerTok(s[i])]

\* sub occurs in s at position i
OccursAt(s, sub, i) ==
  /\ i >= 1
  /\ i + Len(sub) - 1 <= Len(s)
  /\ SubSeq(s, i, i + Len(sub) - 1) = sub

\* sub in s
Contains(s, sub) == \E i \in 1..(Len(s) + 1) : OccursAt(s, sub, i)

\* s.find(sub): the least position, 0 when there is none
Find(s, sub) ==
  IF Contains(s, sub)
    THEN CHOOSE i \in 1..(Len(s) + 1) :
           /\ OccursAt(s, sub, i)
           /\ \A j \in 1..(i - 1) : ~OccursAt(s, sub, j)
    ELSE 0

\* s.split(sep, 1): split at the first occurrence only
Split_once(s, sep) ==
  LET i == Find(s, sep) IN
  IF i = 0
    THEN <<s>>
    ELSE <<SubSeq(s, 1, i - 1), SubSeq(s, i + Len(sep), Len(s))>>

\* s.split(sep), sep not empty: the parts between the occurrences of sep,
\* scanned from the left without overlap
RECURSIVE Split(_, _)
Split(s, sep) ==
  LET i == Find(s, sep) IN
  IF i = 0
    THEN <<s>>
    ELSE <<SubSeq(s, 1, i - 1)>> \o Split(SubSeq(s, i + Len(sep), Len(s)), sep)

\* s.strip(): blanks removed at both ends
RECURSIVE Strip(_)
Strip(s) ==
  IF s = <<>> THEN s
  ELSE IF Head(s) = SP THEN Strip(Tail(s))
  ELSE IF s[Len(s)] = SP THEN Strip(SubSeq(s, 1, Len(s) - 1))
  ELSE s

\* ------------------------------------------------------------------ helpers
\* the marker looked for in the lower-cased content
is_termination_message_lower(msg) ==
  Contains(Lower(Get(msg, "content", PyStr(<<>>)).s), <<MARKER>>)

\* "CHECKING PRODUCTS BASED ON" in msg.get("content", "").upper()
is_termination_message(msg) ==
  Contains(Upper(Get(msg, "content", PyStr(<<>>)).s), <<MARKER>>)

\* the containment tested on the upper-cased content, as the termination
\* test does
RECURSIVE extract_from_any_case(_, _)
extract_from_any_case(messages, i) ==
  IF i > Len(messages)
    THEN PyNone
    ELSE IF Contains(Upper(Get(messages[i], "content", PyStr(<<>>)).s), <<MARKER, COLON>>)
      THEN LET parts == Split(messages[i].content.s, <<MARKER, COLON, SP>>)
           IN PyStr(parts[Len(parts)])
      ELSE extract_from_any_case(messages, i + 1)

\* for message in messages: the first message whose content has the marker
\* and the colon decides; its content is split on marker, colon and blank
\* and the last part is returned
RECURSIVE extract_from(_, _)
extract_from(messages, i) ==
  IF i > Len(messages)
    THEN PyNone
    ELSE IF Contains(Get(messages[i], "content", PyStr(<<>>)).s, <<MARKER, COLON>>)
      THEN LET parts == Split(messages[i].content.s, <<MARKER, COLON, SP>>)
           IN PyStr(parts[Len(parts)])
      ELSE extract_from(messages, i + 1)

\* the text after the first occurrence of the literal instead of the last
extract_after_first(messages) ==
  LET r == extract_from(messages, 1) IN
  IF r.t = "None" THEN r
  ELSE LET hits == {i \in 1..Len(messages) :
                      Contains(messages[i].content.s, <<MARKER, COLON>>)}
           c == messages[CHOOSE i \in hits : \A j \in hits : i <= j].content.s
           k == Find(c, <<MARKER, COLON, SP>>)
       IN IF k = 0 THEN PyStr(c) ELSE PyStr(SubSeq(c, k + 3, Len(c)))

extract_preferences_from_messages(messages) == extract_from(messages, 1)

\* chat_history[0] instead of chat_history[-1]
get_first_message_content(result) ==
  IF result.t # "None" /\ result.chat_history # <<>>
    THEN Get(result.chat_history[1], "content", PyStr(<<>>))
    ELSE PyNone

\* result.chat_history[-1].get('content', '') if result and result.chat_history
\* else None.  A result is PyNone or a ChatResult record with a chat_history
\* (an object without __bool__ or __len__, so it is truthy).
get_last_message_content(result) ==
  IF result.t # "None" /\ result.chat_history # <<>>
    THEN Get(result.chat_history[Len(result.chat_history)], "content", PyStr(<<>>))
    ELSE PyNone

\* -------------------------------------------------------------- input sets
\* the pieces a generated message is made of
Pieces ==
  { <<"a">>,
    <<MARKER, COLON, SP>>,
    <<MARKER, COLON>>,
    <<MARKER>>,
    <<marker_lc, COLON, SP>> }

\* the texts of exactly n pieces, of at most n pieces
RECURSIVE TextsExact(_)
TextsExact(n) ==
  IF n = 0 THEN {<<>>}
  ELSE {t \o p : t \in TextsExact(n - 1), p \in Pieces}

TextsOf(n) == UNION {TextsExact(j) : j \in 0..n}

\* the contents a participant may produce
Replies == TextsOf(MaxPieces)

RECURSIVE SeqsUpTo(_, _)
SeqsUpTo(S, n) ==
  IF n = 0 THEN {<<>>}
  ELSE LET T == SeqsUpTo(S, n - 1) IN T \cup {Append(t, x) : t \in T, x \in S}

\* the lines typed at the prompt: nothing, an exit word in some letter case,
\* a request, a request that begins with an exit word; each without and with
\* blanks around it
Words == {<<>>, <<"exit">>, <<"Quit">>, <<"EXIT">>, <<"a">>, <<"exit", SP, "a">>}
Lines == Words \cup {<<SP>> \o w \o <<SP>> : w \in Words}

Msg(text) == [content |-> PyStr(text)]

\* the transcripts of at most k messages made of at most n pieces in all
RECURSIVE TranscriptsOf(_, _)
TranscriptsOf(k, n) ==
  IF k = 0 THEN {<<>>}
  ELSE {<<>>} \cup
       UNION { {<<Msg(t)>> \o rest : t \in TextsExact(j),
                                    rest \in TranscriptsOf(k - 1, n - j)}
               : j \in 0..n }

Transcripts == TranscriptsOf(MaxTranscript, MaxTranscriptPieces)

\* messages of a chat history: the content key may be absent, None, "" or text
HistMsgs ==
  { [role |-> "user"],
    [role |-> "user", content |-> PyNone],
    [role |-> "user", content |-> PyStr(<<>>)],
    [role |-> "user", content |-> PyStr(<<"a">>)] }

\* the messages of a history of two: without content, with content
HistEnds == {[role |-> "user"], [role |-> "user", content |-> PyStr(<<"a">>)]}

ChatResult(h) == [t |-> "ChatResult", chat_history |-> h]

\* what initiate_chat may return
ChatResults ==
  {PyNone}
    \cup {ChatResult(h) : h \in SeqsUpTo(HistMsgs, 1)}
    \cup {ChatResult(<<m1, m2>>) : m1 \in HistEnds, m2 \in HistEnds}

Agents == {"initial_assistant", "ragproxyagent", "final_assistant"}

\* the directory CHROMA_DB_PATH: a function from the names of its collections
\* to their documents; created and opened count the times this program
\* created the collection and obtained it
NoCollections == [n \in {} |-> [docs |-> <<>>, created |-> 0, opened |-> 0]]

\* what earlier use may have left in a collection
LeftDocs == {<<>>, <<"p1">>, <<"p1", "p2">>}

\* the directories the program may be started on
Disks ==
  UNION { [names -> {[docs |-> d, created |-> 0, opened |-> 0] : d \in LeftDocs}]
          : names \in SUBSET {CHROMA_COLLECTION, "other"} }

\* an exception class under Exception, and one under BaseException alone
ExcKinds == {"Exception", "KeyboardInterrupt"}

NoExc == [stage |-> "none", kind |-> "none"]

\* ------------------------------------------------------------------- state
VARIABLES
  pc,                 \* where the process is
  openai_api_key,     \* os.getenv("OPENAI_API_KEY")
  user_input,         \* main's user_input, the flow's parameter
  messages,           \* group_chat_manager.groupchat.messages
  round,              \* messages appended by the running exchange
  agent_state,        \* turn-state of the three participants
  chroma,             \* the collections in the directory CHROMA_DB_PATH
  vector_db,          \* the module's vector_db: the collection it holds
  participants,       \* the participants main() has created
  preferences,        \* locals of the flow
  retrieval_problem,
  retrieved_content,
  \* history of the session, read by the properties only
  line,               \* the line last typed, before strip()
  reads,              \* lines read so far
  started,            \* pipeline runs started
  completed,          \* pipeline runs that returned to main
  msg_run,            \* for each message of messages, the run that produced it
  printed,            \* what was printed since the last line was read
  stages,             \* the stages invoked since the last line was read
  raised,             \* the exception raised since the last line was read
  ended_by,           \* why the Collector exchange returned
  read_transcript,    \* the transcript the extraction read
  read_runs,          \* and the runs that produced its messages
  rag_result,         \* what the Retriever exchange returned
  final_result,       \* what the Composer exchange returned
  starts              \* times the program was started

locals == <<preferences, retrieval_problem, retrieved_content>>
history == <<line, reads, started, completed, msg_run, printed, stages,
             raised, ended_by, read_transcript, read_runs, rag_result,
             final_result, starts>>
process == <<chroma, vector_db, participants>>
vars == <<pc, openai_api_key, user_input, messages, round, agent_state,
          process, locals, history>>

Out(text, arg) == [text |-> text, arg |-> arg]

\* the frame of groupchat_product_recommendation_flow is gone
NoLocals ==
  /\ preferences' = PyNone
  /\ retrieval_problem' = PyNone
  /\ retrieved_content' = PyNone

Init ==
  /\ pc = "startup"
  /\ openai_api_key \in {PyNone, PyStr(<<>>), PyStr(<<"k">>)}
  /\ user_input = PyNone
  /\ messages = <<>>
  /\ round = 0
  /\ agent_state = [a \in Agents |-> "clean"]
  /\ preferences = PyNone
  /\ retrieval_problem = PyNone
  /\ retrieved_content = PyNone
  /\ line = <<>>
  /\ reads = 0
  /\ started = 0
  /\ completed = 0
  /\ msg_run = <<>>
  /\ printed = <<>>
  /\ stages = <<>>
  /\ raised = NoExc
  /\ ended_by = "none"
  /\ read_transcript = <<>>
  /\ read_runs = <<>>
  /\ rag_result = PyNone
  /\ final_result = PyNone
  /\ starts = 1
  /\ chroma = NoCollections
  /\ vector_db = PyNone
  /\ participants = {}

\* ------------------------------------------------------------------ startup
\* module level: the credential is read and checked, then main() builds the
\* participants and the group chat (messages=[]) and enters the loop
WelcomeText ==
  "Welcome to the Product Recommendation Chatbot! Type 'exit' or 'quit' to end the session."

\* the collection dropped and created again
initialize_chroma_db_overwrite(db, collection_name) ==
  [n \in DOMAIN db \cup {collection_name} |->
     IF n = collection_name
       THEN [docs |-> <<>>,
             created |-> IF n \in DOMAIN db THEN db[n].created + 1 ELSE 1,
             opened |-> IF n \in DOMAIN db THEN db[n].opened + 1 ELSE 1]
       ELSE db[n]]

\* chromadb.PersistentClient(path).get_or_create_collection(name), db being
\* the directory at path: the collection found there is returned as it is,
\* an empty one is created when there is none
initialize_chroma_db(db, collection_name) ==
  IF collection_name \in DOMAIN db
    THEN [db EXCEPT ![collection_name].opened = @ + 1]
    ELSE [n \in DOMAIN db \cup {collection_name} |->
            IF n = collection_name
              THEN [docs |-> <<>>, created |-> 1, opened |-> 1]
              ELSE db[n]]

\* the index initialised before the credential is checked
Startup_check_late ==
  /\ pc = "startup"
  /\ chroma' = initialize_chroma_db(chroma, CHROMA_COLLECTION)
  /\ IF ~Truthy(openai_api_key)
       THEN /\ pc' = "config_error"
            /\ UNCHANGED <<vector_db, participants, printed>>
       ELSE /\ pc' = "input"
            /\ vector_db' = PyStr(<<CHROMA_COLLECTION>>)
            /\ participants' = Agents
            /\ printed' = <<Out(WelcomeText, PyNone)>>
  /\ UNCHANGED <<openai_api_key, user_input, messages, round, agent_state,
                 locals, line, reads, started, completed, msg_run, stages,
                 raised, ended_by, read_transcript, read_runs, rag_result,
                 final_result, starts>>

\* module level and the head of main(): the credential is read and checked
\* (ValueError without it), the index is initialised, main() prints the
\* welcome, builds the participants and the group chat (messages=[]) and
\* enters the loop
Startup ==
  /\ pc = "startup"
  /\ IF ~Truthy(openai_api_key)
       THEN /\ pc' = "config_error"
            /\ UNCHANGED <<chroma, vector_db, participants, printed>>
       ELSE /\ pc' = "input"
            /\ chroma' = initialize_chroma_db(chroma, CHROMA_COLLECTION)
            /\ vector_db' = PyStr(<<CHROMA_COLLECTION>>)
            /\ participants' = Agents
            /\ printed' = <<Out(WelcomeText, PyNone)>>
  /\ UNCHANGED <<openai_api_key, user_input, messages, round, agent_state,
                 locals, line, reads, started, completed, msg_run, stages,
                 raised, ended_by, read_transcript, read_runs, rag_result,
                 final_result, starts>>

\* ------------------------------------------------------------ session loop
ExitWords == {<<"exit">>, <<"quit">>}

\* the comparison without lower()
IsExit_case_sensitive(ui) == ui \in ExitWords

\* user_input.lower() in ["exit", "quit"]
IsExit(ui) == Lower(ui) \in ExitWords

\* the check for the empty line left out
IsEmpty_never(ui) == FALSE

\* not user_input
IsEmpty(ui) == ~Truthy(PyStr(ui))

\* one pass of the while loop up to the call of the flow:
\* user_input = input("You: ").strip(); exit word: goodbye and break;
\* empty: re-prompt; otherwise the flow is called with user_input
ReadLine ==
  /\ pc = "input"
  /\ UNCHANGED process
  /\ reads < MaxReads
  /\ \E ln \in Lines :
       LET ui == Strip(ln) IN
       /\ line' = ln
       /\ user_input' = PyStr(ui)
       /\ IF IsExit(ui)
            THEN /\ printed' = <<Out("Goodbye!", PyNone)>>
                 /\ pc' = "exited"
                 /\ started' = started
            ELSE IF IsEmpty(ui)
              THEN /\ printed' = <<Out("Please enter your preferences.", PyNone)>>
                   /\ pc' = "input"
                   /\ started' = started
              ELSE /\ printed' = <<>>
                   /\ pc' = "reset"
                   /\ started' = started + 1
  /\ reads' = reads + 1
  /\ stages' = <<>>
  /\ raised' = NoExc
  /\ ended_by' = "none"
  /\ read_transcript' = <<>>
  /\ read_runs' = <<>>
  /\ rag_result' = PyNone
  /\ final_result' = PyNone
  /\ UNCHANGED <<openai_api_key, messages, round, agent_state, locals,
                 completed, msg_run, starts>>

\* input() itself raises (EOFError when stdin is at its end, KeyboardInterrupt):
\* the call is outside every try, the exception leaves main
InputRaises ==
  /\ pc = "input"
  /\ UNCHANGED process
  /\ reads < MaxReads
  /\ \E k \in ExcKinds : raised' = [stage |-> "input", kind |-> k]
  /\ pc' = "crashed"
  /\ reads' = reads + 1
  /\ printed' = <<>>
  /\ stages' = <<>>
  /\ ended_by' = "none"
  /\ read_transcript' = <<>>
  /\ read_runs' = <<>>
  /\ rag_result' = PyNone
  /\ final_result' = PyNone
  /\ UNCHANGED <<openai_api_key, user_input, messages, round, agent_state,
                 locals, line, started, completed, msg_run, starts>>

\* ------------------------------------------------------------ pipeline run
\* except Exception as e: the classes under Exception are caught
Caught(k) == k = "Exception"

\* the handler prints the report and raises again
Raise_again(stage, k) ==
  /\ raised' = [stage |-> stage, kind |-> k]
  /\ printed' = IF Caught(k)
                  THEN Append(printed, Out("An error occurred during the recommendation flow", PyNone))
                  ELSE printed
  /\ pc' = "crashed"
  /\ completed' = completed
  /\ NoLocals

\* a stage raises k: the handler prints the error report and the flow returns,
\* or the exception leaves the flow and main
Raise(stage, k) ==
  /\ raised' = [stage |-> stage, kind |-> k]
  /\ IF Caught(k)
       THEN /\ printed' = Append(printed, Out("An error occurred during the recommendation flow", PyNone))
            /\ pc' = "input"
            /\ completed' = completed + 1
       ELSE /\ printed' = printed
            /\ pc' = "crashed"
            /\ completed' = completed
  /\ NoLocals

\* return to main
Return ==
  /\ pc' = "input"
  /\ completed' = completed + 1

\* reset_agents([assistant, ragproxyagent, final_assistant])
reset_agents ==
  /\ pc = "reset"
  /\ UNCHANGED process
  /\ agent_state' = [a \in Agents |-> "clean"]
  /\ stages' = Append(stages, "reset")
  /\ pc' = "initiate"
  /\ UNCHANGED <<openai_api_key, user_input, messages, round, locals, line,
                 reads, started, completed, msg_run, printed, raised,
                 ended_by, read_transcript, read_runs, rag_result, final_result, starts>>

\* agent.reset() raises
ResetRaises ==
  /\ pc = "reset"
  /\ UNCHANGED process
  /\ stages' = Append(stages, "reset")
  /\ \E k \in ExcKinds : Raise("reset", k)
  /\ UNCHANGED <<openai_api_key, user_input, messages, round, agent_state,
                 line, reads, started, msg_run, ended_by, read_transcript,
                 read_runs, rag_result, final_result, starts>>

\* the exchange begun with clear_history=False: the group chat keeps its messages
CollectorInitiate_keep_history ==
  /\ pc = "initiate"
  /\ UNCHANGED process
  /\ messages' = Append(messages, Msg(user_input.s))
  /\ msg_run' = Append(msg_run, started)
  /\ round' = 1
  /\ agent_state' = [a \in Agents |-> "dirty"]
  /\ stages' = Append(stages, "collector")
  /\ pc' = "collect"
  /\ UNCHANGED <<openai_api_key, user_input, locals, line, reads, started,
                 completed, printed, raised, ended_by, read_transcript,
                 read_runs, rag_result, final_result, starts>>

\* assistant.initiate_chat(group_chat_manager, message=user_input) begins:
\* clear_history is left at its default, so the manager's group chat is
\* reset, and the first message of the exchange is user_input
CollectorInitiate ==
  /\ pc = "initiate"
  /\ UNCHANGED process
  /\ messages' = <<Msg(user_input.s)>>
  /\ msg_run' = <<started>>
  /\ round' = 1
  /\ agent_state' = [a \in Agents |-> "dirty"]
  /\ stages' = Append(stages, "collector")
  /\ pc' = "collect"
  /\ UNCHANGED <<openai_api_key, user_input, locals, line, reads, started,
                 completed, printed, raised, ended_by, read_transcript,
                 read_runs, rag_result, final_result, starts>>

\* the contents produced in a round: any reply in the first rounds, one
\* fixed reply without the marker in the rounds after them
RepliesAt(r) == IF r < 1 + MaxReplies THEN Replies ELSE {<<"a">>}

\* a reply made after the round limit was reached
CollectorReply_one_more ==
  /\ pc = "collect"
  /\ UNCHANGED process
  /\ round < max_round + 1
  /\ ~is_termination_message(messages[Len(messages)])
  /\ \E text \in RepliesAt(round) : messages' = Append(messages, Msg(text))
  /\ msg_run' = Append(msg_run, started)
  /\ round' = round + 1
  /\ UNCHANGED <<pc, openai_api_key, user_input, agent_state, locals, line,
                 reads, started, completed, printed, stages, raised, ended_by,
                 read_transcript, read_runs, rag_result, final_result, starts>>

\* initiate_chat returns
\* one more round of the exchange: a participant's message is appended; the
\* exchange is over after max_round messages or after a termination message
CollectorReply ==
  /\ pc = "collect"
  /\ UNCHANGED process
  /\ round < max_round
  /\ ~is_termination_message(messages[Len(messages)])
  /\ \E text \in RepliesAt(round) : messages' = Append(messages, Msg(text))
  /\ msg_run' = Append(msg_run, started)
  /\ round' = round + 1
  /\ UNCHANGED <<pc, openai_api_key, user_input, agent_state, locals, line,
                 reads, started, completed, printed, stages, raised, ended_by,
                 read_transcript, read_runs, rag_result, final_result, starts>>

\* initiate_chat returns
CollectorReturn ==
  /\ pc = "collect"
  /\ UNCHANGED process
  /\ ended_by' = IF is_termination_message(messages[Len(messages)])
                   THEN "termination"
                   ELSE IF round = max_round THEN "max_round" ELSE "other"
  /\ pc' = "extract"
  /\ UNCHANGED <<openai_api_key, user_input, messages, round, agent_state,
                 locals, line, reads, started, completed, msg_run, printed,
                 stages, raised, read_transcript, read_runs, rag_result, final_result, starts>>

\* initiate_chat raises
CollectorRaises ==
  /\ pc \in {"initiate", "collect"}
  /\ UNCHANGED process
  /\ stages' = IF pc = "initiate" THEN Append(stages, "collector") ELSE stages
  /\ \E k \in ExcKinds : Raise("collector", k)
  /\ UNCHANGED <<openai_api_key, user_input, messages, round, agent_state,
                 line, reads, started, msg_run, ended_by, read_transcript,
                 read_runs, rag_result, final_result, starts>>

\* the test "preferences is None"
NoPreferences_is_none(prefs) == prefs.t = "None"

\* not preferences
NoPreferences(prefs) == ~Truthy(prefs)

\* lines 105-109: the preferences are extracted from the group chat's
\* messages; without them the run ends
Extract ==
  /\ pc = "extract"
  /\ UNCHANGED process
  /\ read_transcript' = messages
  /\ read_runs' = msg_run
  /\ stages' = Append(stages, "extract")
  /\ UNCHANGED <<rag_result, final_result, starts>>
  /\ LET prefs == extract_preferences_from_messages(messages) IN
     IF NoPreferences(prefs)
       THEN /\ printed' = Append(printed, Out("Unable to fetch user preferences.", PyNone))
            /\ Return
            /\ NoLocals
       ELSE /\ printed' = Append(printed, Out("User preferences: ", prefs))
            /\ pc' = "retrieve"
            /\ preferences' = prefs
            /\ completed' = completed
            /\ UNCHANGED <<retrieval_problem, retrieved_content>>
  /\ UNCHANGED <<openai_api_key, user_input, messages, round, agent_state,
                 line, reads, started, msg_run, raised, ended_by>>

\* the Retriever exchange held a second time before the run moves on
Retrieve_again ==
  /\ pc = "retrieve"
  /\ UNCHANGED process
  /\ stages' = Append(stages, "retriever")
  /\ LET problem == PyStr(<<"Retrieve products matching these preferences: ">> \o preferences.s) IN
     /\ messages' = <<Msg(problem.s)>>
     /\ \E result \in ChatResults :
          LET content == get_last_message_content(result) IN
          /\ rag_result' = result
          /\ IF ~Truthy(content)
               THEN /\ printed' = Append(printed, Out("No products retrieved.", PyNone))
                    /\ Return
                    /\ NoLocals
               ELSE /\ printed' = Append(printed, Out("Retrieved products: ", content))
                    /\ pc' = IF Len(stages) > 3 THEN "compose" ELSE "retrieve"
                    /\ retrieval_problem' = problem
                    /\ retrieved_content' = content
                    /\ completed' = completed
                    /\ preferences' = preferences
  /\ msg_run' = <<started>>
  /\ round' = 1
  /\ agent_state' = [a \in Agents |-> "dirty"]
  /\ UNCHANGED <<openai_api_key, user_input, line, reads, started, raised,
                 ended_by, read_transcript, read_runs, final_result, starts>>

\* lines 112-119: the Retriever exchange and its last message
Retrieve ==
  /\ pc = "retrieve"
  /\ UNCHANGED process
  /\ stages' = Append(stages, "retriever")
  /\ LET problem == PyStr(<<"Retrieve products matching these preferences: ">> \o preferences.s) IN
     /\ messages' = <<Msg(problem.s)>>
     /\ \E result \in ChatResults :
          LET content == get_last_message_content(result) IN
          /\ rag_result' = result
          /\ IF ~Truthy(content)
               THEN /\ printed' = Append(printed, Out("No products retrieved.", PyNone))
                    /\ Return
                    /\ NoLocals
               ELSE /\ printed' = Append(printed, Out("Retrieved products: ", content))
                    /\ pc' = "compose"
                    /\ retrieval_problem' = problem
                    /\ retrieved_content' = content
                    /\ completed' = completed
                    /\ preferences' = preferences
  /\ msg_run' = <<started>>
  /\ round' = 1
  /\ agent_state' = [a \in Agents |-> "dirty"]
  /\ UNCHANGED <<openai_api_key, user_input, line, reads, started, raised,
                 ended_by, read_transcript, read_runs, final_result, starts>>

\* ragproxyagent.initiate_chat raises
RetrieverRaises ==
  /\ pc = "retrieve"
  /\ UNCHANGED process
  /\ stages' = Append(stages, "retriever")
  /\ \E k \in ExcKinds : Raise("retriever", k)
  /\ UNCHANGED <<openai_api_key, user_input, messages, round, agent_state,
                 line, reads, started, msg_run, ended_by, read_transcript,
                 read_runs, rag_result, final_result, starts>>

\* the message built from the retrieval request instead of the preferences
formatting_message_of_problem(prefs, content) ==
  PyStr(<<"User preferences: ">> \o <<"Retrieve products matching these preferences: ">>
        \o prefs.s \o <<"\nRetrieved products: ">> \o content.s)

\* f"User preferences: {preferences}\nRetrieved products: {retrieved_content}"
formatting_message(prefs, content) ==
  PyStr(<<"User preferences: ">> \o prefs.s
        \o <<"\nRetrieved products: ">> \o content.s)

\* the recommendations printed as they are
final_print_raw(recommendations) ==
  Out("Final Product Recommendations:\n", recommendations)

\* print("Final Product Recommendations:\n",
\*       recommendations if recommendations else "No recommendations found.")
final_print(recommendations) ==
  Out("Final Product Recommendations:\n",
      IF Truthy(recommendations) THEN recommendations
      ELSE PyStr(<<"No recommendations found.">>))

\* the Composer exchange without the final print
Compose_silent ==
  /\ pc = "compose"
  /\ UNCHANGED process
  /\ stages' = Append(stages, "composer")
  /\ messages' = <<Msg(formatting_message(preferences, retrieved_content).s)>>
  /\ \E final_assistant_result \in ChatResults :
       /\ final_result' = final_assistant_result
       /\ printed' = printed
  /\ msg_run' = <<started>>
  /\ round' = 1
  /\ agent_state' = [a \in Agents |-> "dirty"]
  /\ Return
  /\ NoLocals
  /\ UNCHANGED <<openai_api_key, user_input, line, reads, started, raised,
                 ended_by, read_transcript, read_runs, rag_result, starts>>

\* lines 122-126: the Composer exchange and the final print
Compose ==
  /\ pc = "compose"
  /\ UNCHANGED process
  /\ stages' = Append(stages, "composer")
  /\ messages' = <<Msg(formatting_message(preferences, retrieved_content).s)>>
  /\ \E final_assistant_result \in ChatResults :
       /\ final_result' = final_assistant_result
       /\ printed' = Append(printed,
                       final_print(get_last_message_content(final_assistant_result)))
  /\ msg_run' = <<started>>
  /\ round' = 1
  /\ agent_state' = [a \in Agents |-> "dirty"]
  /\ Return
  /\ NoLocals
  /\ UNCHANGED <<openai_api_key, user_input, line, reads, started, raised,
                 ended_by, read_transcript, read_runs, rag_result, starts>>

\* final_assistant.initiate_chat raises
ComposerRaises ==
  /\ pc = "compose"
  /\ UNCHANGED process
  /\ stages' = Append(stages, "composer")
  /\ \E k \in ExcKinds : Raise("composer", k)
  /\ UNCHANGED <<openai_api_key, user_input, messages, round, agent_state,
                 line, reads, started, msg_run, ended_by, read_transcript,
                 read_runs, rag_result, final_result, starts>>

groupchat_product_recommendation_flow ==
  \/ reset_agents
  \/ ResetRaises
  \/ CollectorInitiate
  \/ CollectorReply
  \/ CollectorReturn
  \/ CollectorRaises
  \/ Extract
  \/ Retrieve
  \/ RetrieverRaises
  \/ Compose
  \/ ComposerRaises

main ==
  \/ ReadLine
  \/ InputRaises
  \/ groupchat_product_recommendation_flow

Next ==
  \/ Startup
  \/ main

Spec == Init /\ [][Next]_vars

\* ------------------------------------------------- the extraction on its own
\* extract_preferences_from_messages applied to an arbitrary transcript
InitExtract ==
  /\ pc = "pure"
  /\ openai_api_key = PyStr(<<"k">>)
  /\ user_input = PyNone
  /\ messages \in Transcripts
  /\ round = 0
  /\ agent_state = [a \in Agents |-> "clean"]
  /\ preferences = PyNone
  /\ retrieval_problem = PyNone
  /\ retrieved_content = PyNone
  /\ line = <<>>
  /\ reads = 0
  /\ started = 0
  /\ completed = 0
  /\ msg_run = <<>>
  /\ printed = <<>>
  /\ stages = <<>>
  /\ raised = NoExc
  /\ ended_by = "none"
  /\ read_transcript = <<>>
  /\ read_runs = <<>>
  /\ rag_result = PyNone
  /\ final_result = PyNone
  /\ starts = 1
  /\ chroma = NoCollections
  /\ vector_db = PyNone
  /\ participants = {}

ApplyExtract ==
  /\ pc = "pure"
  /\ UNCHANGED process
  /\ preferences' = extract_preferences_from_messages(messages)
  /\ pc' = "pure_done"
  /\ UNCHANGED <<openai_api_key, user_input, messages, round, agent_state,
                 retrieval_problem, retrieved_content, history>>

NextExtract == ApplyExtract

SpecExtract == InitExtract /\ [][NextExtract]_vars

\* ------------------------------------------------------------ one run
\* the first run of a session: the program has started with its credential,
\* a request was read and the flow is called
InitRun ==
  /\ pc = "reset"
  /\ openai_api_key = PyStr(<<"k">>)
  /\ \E ln \in Lines :
       /\ ~IsExit(Strip(ln))
       /\ ~IsEmpty(Strip(ln))
       /\ line = ln
       /\ user_input = PyStr(Strip(ln))
  /\ messages = <<>>
  /\ round = 0
  /\ agent_state = [a \in Agents |-> "clean"]
  /\ preferences = PyNone
  /\ retrieval_problem = PyNone
  /\ retrieved_content = PyNone
  /\ reads = 1
  /\ started = 1
  /\ completed = 0
  /\ msg_run = <<>>
  /\ printed = <<>>
  /\ stages = <<>>
  /\ raised = NoExc
  /\ ended_by = "none"
  /\ read_transcript = <<>>
  /\ read_runs = <<>>
  /\ rag_result = PyNone
  /\ final_result = PyNone
  /\ starts = 1
  /\ chroma = initialize_chroma_db(NoCollections, CHROMA_COLLECTION)
  /\ vector_db = PyStr(<<CHROMA_COLLECTION>>)
  /\ participants = Agents

\* every exchange of the run returns or raises, and the flow goes on: a run
\* that can take a step takes one
SpecRun ==
  /\ InitRun
  /\ [][groupchat_product_recommendation_flow]_vars
  /\ WF_vars(groupchat_product_recommendation_flow)

\* ------------------------------------------------- the index over restarts
\* the program started again and again on a directory; the session between
\* two starts is left out
InitIndex ==
  /\ pc = "startup"
  /\ openai_api_key \in {PyNone, PyStr(<<>>), PyStr(<<"k">>)}
  /\ user_input = PyNone
  /\ messages = <<>>
  /\ round = 0
  /\ agent_state = [a \in Agents |-> "clean"]
  /\ preferences = PyNone
  /\ retrieval_problem = PyNone
  /\ retrieved_content = PyNone
  /\ line = <<>>
  /\ reads = 0
  /\ started = 0
  /\ completed = 0
  /\ msg_run = <<>>
  /\ printed = <<>>
  /\ stages = <<>>
  /\ raised = NoExc
  /\ ended_by = "none"
  /\ read_transcript = <<>>
  /\ read_runs = <<>>
  /\ rag_result = PyNone
  /\ final_result = PyNone
  /\ starts = 1
  /\ chroma \in Disks
  /\ vector_db = PyNone
  /\ participants = {}

\* the process has ended (at the configuration error, or out of the loop)
\* and the program is started again: the environment may have changed, the
\* directory is as it was left
Rerun ==
  /\ pc \in {"config_error", "input"}
  /\ starts < MaxStarts
  /\ starts' = starts + 1
  /\ pc' = "startup"
  /\ openai_api_key' \in {PyNone, PyStr(<<>>), PyStr(<<"k">>)}
  /\ vector_db' = PyNone
  /\ participants' = {}
  /\ printed' = <<>>
  /\ UNCHANGED <<chroma, user_input, messages, round, agent_state, locals,
                 line, reads, started, completed, msg_run, stages, raised,
                 ended_by, read_transcript, read_runs, rag_result,
                 final_result>>

NextIndex ==
  \/ Startup
  \/ Rerun

SpecIndex == InitIndex /\ [][NextIndex]_vars

\* ================================================================ properties
MarkerColon == <<MARKER, COLON>>
SplitLiteral == <<MARKER, COLON, SP>>

Content(m) == m.content.s

\* the messages of a transcript whose content has the marker and the colon,
\* the marker, the colon and the blank
WithColon(t) == {i \in 1..Len(t) : Contains(Content(t[i]), MarkerColon)}
WithLiteral(t) == {i \in 1..Len(t) : Contains(Content(t[i]), SplitLiteral)}

Least(S) == CHOOSE i \in S : \A j \in S : i <= j

\* the positions of the split literal in a text
Occurrences(c) == {j \in 1..Len(c) : OccursAt(c, SplitLiteral, j)}

\* the text that follows the occurrence at j
After(c, j) == SubSeq(c, j + Len(SplitLiteral), Len(c))

\* C1 as stated: when a message of the transcript has "CHECKING PRODUCTS BASED
\* ON: X", the extraction returns the text that follows the first occurrence
\* of the marker literal in the first such message, however many occurrences
\* there are.
C1_FirstOccurrence ==
  (pc = "pure_done" /\ WithLiteral(messages) # {}) =>
     LET c == Content(messages[Least(WithLiteral(messages))])
     IN preferences = PyStr(After(c, Least(Occurrences(c))))

\* C1 amended: when a message of the transcript has "CHECKING PRODUCTS BASED
\* ON:", the first such message decides: the extraction returns the text that
\* follows the last "CHECKING PRODUCTS BASED ON: " in it (a text without the
\* literal, ending the content), and the whole content when the colon is
\* nowhere followed by a blank.
C1_LastOccurrence ==
  (pc = "pure_done" /\ WithColon(messages) # {}) =>
     LET c == Content(messages[Least(WithColon(messages))])
     IN /\ preferences.t = "str"
        /\ IF Occurrences(c) = {}
             THEN preferences.s = c
             ELSE /\ \E j \in Occurrences(c) : preferences.s = After(c, j)
                  /\ ~Contains(preferences.s, SplitLiteral)

\* a transcript whose first marker message has the literal twice, with text
\* after the second
C1_Witness ==
  /\ pc = "pure_done"
  /\ WithColon(messages) # {}
  /\ Cardinality(Occurrences(Content(messages[Least(WithColon(messages))]))) >= 2
  /\ Truthy(preferences)

Has(seq, x) == \E i \in DOMAIN seq : seq[i] = x
Count(seq, x) == Cardinality({i \in DOMAIN seq : seq[i] = x})
PrintedText(text) == \E i \in DOMAIN printed : printed[i].text = text
LastPrinted == IF printed = <<>> THEN "" ELSE printed[Len(printed)].text

UnableText == "Unable to fetch user preferences."
NoProductsText == "No products retrieved."
ErrorText == "An error occurred during the recommendation flow"

FlowStages == {"reset", "collector", "extract", "retriever", "composer"}
FlowPcs == {"reset", "initiate", "collect", "extract", "retrieve", "compose"}

C3_NoMarkerHalts ==
  (Has(stages, "extract") /\ WithColon(read_transcript) = {}) =>
     /\ extract_preferences_from_messages(read_transcript) = PyNone
     /\ printed = <<Out(UnableText, PyNone)>>
     /\ pc = "input"
     /\ completed = started
     /\ ~Has(stages, "retriever")
     /\ ~Has(stages, "composer")

\* a run that read a transcript whose only marker is in lower case
C3_Witness ==
  /\ Has(stages, "extract")
  /\ WithColon(read_transcript) = {}
  /\ \E i \in DOMAIN read_transcript : is_termination_message(read_transcript[i])

\* C4: when the Collector exchange ended on a message that satisfies the
\* termination predicate, the run derives a Preference Set and goes on to the
\* retrieval instead of printing 'Unable to fetch user preferences.'.
C4_TerminationDerives ==
  (ended_by = "termination" /\ Has(stages, "extract")) =>
     /\ PrintedText("User preferences: ")
     /\ ~PrintedText(UnableText)

\* C5: a run derives at most one Preference Set, a run that returned without
\* one was aborted, and the Retriever is invoked at most once and only after
\* a non-empty Preference Set was derived in that run.
C5_OnePreferenceSet ==
  LET derived == {i \in DOMAIN printed : printed[i].text = "User preferences: "} IN
  /\ Cardinality(derived) <= 1
  /\ Count(stages, "extract") <= 1
  /\ Count(stages, "retriever") <= 1
  /\ (pc = "input" /\ stages # <<>> /\ derived = {}) =>
        LastPrinted \in {UnableText, ErrorText}
  /\ (Has(stages, "retriever") \/ pc \in {"retrieve", "compose"}) =>
        /\ \E i \in derived :
             /\ Truthy(printed[i].arg)
             /\ pc \in {"retrieve", "compose"} => preferences = printed[i].arg
        /\ \A j \in DOMAIN stages :
             stages[j] = "retriever" => \E i \in 1..(j - 1) : stages[i] = "extract"

\* the Retriever exchange has returned with products
C5_Witness ==
  /\ pc = "compose"
  /\ Has(stages, "retriever")

\* the result of an exchange is empty or absent: no result object, an empty
\* chat history, or a last message without content, with None or with ""
EmptyResult(r) ==
  \/ r = PyNone
  \/ /\ r.t = "ChatResult"
     /\ \/ r.chat_history = <<>>
        \/ LET m == r.chat_history[Len(r.chat_history)] IN
           \/ "content" \notin DOMAIN m
           \/ m.content = PyNone
           \/ m.content = PyStr(<<>>)

\* C6: when the Retriever exchange returns an empty or absent result, the run
\* prints "No products retrieved." and returns without a Composer call.
C6_EmptyRetrievalAborts ==
  (Has(stages, "retriever") /\ raised = NoExc /\ EmptyResult(rag_result)) =>
     /\ LastPrinted = NoProductsText
     /\ ~PrintedText("Retrieved products: ")
     /\ ~Has(stages, "composer")
     /\ pc = "input"
     /\ completed = started

\* the exchange returned a history of two messages, the last without content
C6_Witness ==
  /\ Has(stages, "retriever")
  /\ raised = NoExc
  /\ rag_result.t = "ChatResult"
  /\ Len(rag_result.chat_history) = 2
  /\ Truthy(Get(rag_result.chat_history[1], "content", PyNone))
  /\ "content" \notin DOMAIN rag_result.chat_history[2]

\* C7 as stated: whatever exception a stage of the run raises, the run ends
\* with the error report, no later stage is invoked and the loop goes on to
\* read the next line.
C7_AnyExceptionReported ==
  raised.stage \in FlowStages =>
     /\ pc = "input"
     /\ LastPrinted = ErrorText
     /\ stages[Len(stages)] = raised.stage

\* C7 amended: an exception of a class under Exception raised by a stage ends
\* the run with the error report, no later stage is invoked and the loop goes
\* on to read the next line; an exception that is no Exception
\* (KeyboardInterrupt) is not caught: no report, and it ends the loop.
C7_ExceptionReported ==
  raised.stage \in FlowStages =>
     /\ stages[Len(stages)] = raised.stage
     /\ IF raised.kind = "Exception"
          THEN /\ pc = "input"
               /\ LastPrinted = ErrorText
               /\ completed = started
          ELSE /\ pc = "crashed"
               /\ ~PrintedText(ErrorText)

\* the Retriever exchange raised an Exception and the loop is at its prompt
C7_Witness ==
  /\ raised = [stage |-> "retriever", kind |-> "Exception"]
  /\ pc = "input"
  /\ LastPrinted = ErrorText

\* a line that is an exit word in some letter case between blanks
ExitTokens == {"exit", "EXIT", "Exit", "quit", "QUIT", "Quit"}
IsExitLine(l) ==
  \E k \in DOMAIN l : l[k] \in ExitTokens /\ \A i \in DOMAIN l \ {k} : l[i] = SP
IsBlankLine(l) == \A i \in DOMAIN l : l[i] = SP

\* C8: once the loop has started it ends only by an exit word typed at the
\* prompt.
C8_OnlyExitEndsLoop ==
  pc \in {"exited", "crashed"} => (pc = "exited" /\ IsExitLine(line))

\* C9: an exit word in any letter case, blanks around it ignored, ends the
\* loop with the goodbye message and without a pipeline run, and nothing
\* runs afterwards.
C9_ExitEndsSession ==
  /\ [](IsExitLine(line) =>
          /\ pc = "exited"
          /\ printed = <<Out("Goodbye!", PyNone)>>
          /\ stages = <<>>)
  /\ [][pc = "exited" => (pc' = "exited" /\ started' = started /\ stages' = <<>>)]_vars

\* "Quit" between blanks was typed after a first run
C9_Witness ==
  /\ pc = "exited"
  /\ line = <<SP, "Quit", SP>>
  /\ completed = 1

\* u is l without the blanks at its ends
IsTrimOf(u, l) ==
  \E i \in 0..Len(l) :
    /\ i + Len(u) <= Len(l)
    /\ SubSeq(l, i + 1, i + Len(u)) = u
    /\ \A k \in 1..i : l[k] = SP
    /\ \A k \in (i + Len(u) + 1)..Len(l) : l[k] = SP
    /\ u # <<>> => (u[1] # SP /\ u[Len(u)] # SP)

\* C10: a blank line is answered by the prompt alone; every other line that
\* is no exit word starts exactly one run, with that line without the blanks
\* at its ends; a line is read only when every run started has returned, so
\* at most one run is under way.
C10_OneRunPerLine ==
  /\ [](/\ started - completed \in {0, 1}
        /\ pc = "input" => started = completed
        /\ pc \in FlowPcs =>
             /\ started = completed + 1
             /\ ~IsBlankLine(line) /\ ~IsExitLine(line)
             /\ IsTrimOf(user_input.s, line)
             /\ Count(stages, "reset") <= 1
        /\ (reads > 0 /\ IsBlankLine(line) /\ raised = NoExc) =>
             /\ pc = "input"
             /\ printed = <<Out("Please enter your preferences.", PyNone)>>
             /\ stages = <<>>)
  /\ [][reads' = reads + 1 =>
          /\ pc = "input"
          /\ started = completed
          /\ IF raised' = NoExc /\ ~IsBlankLine(line') /\ ~IsExitLine(line')
               THEN started' = started + 1 /\ pc' = "reset"
               ELSE started' = started /\ pc' \notin FlowPcs]_vars

\* a second request, typed between blanks, is being served
C10_Witness ==
  /\ pc = "collect"
  /\ line = <<SP, "a", SP>>
  /\ started = 2

C12_FailsFast ==
  ~Truthy(openai_api_key) =>
    /\ pc \in {"startup", "config_error"}
    /\ chroma = NoCollections
    /\ vector_db = PyNone
    /\ participants = {}
    /\ printed = <<>>
    /\ reads = 0
    /\ started = 0

C12_Witness ==
  /\ pc = "config_error"
  /\ openai_api_key = PyNone

\* ---------------------------------------------------------------- C13
\* the stages of a run, in the order of the flow
StageOrder == <<"reset", "collector", "extract", "retriever", "composer">>

\* C13: in every run the stages happen in the order reset of the three
\* participants, Collector exchange, extraction, Retriever exchange, Composer
\* exchange, final print, each at most once; the Retriever is invoked only
\* after the Collector exchange has returned, the Composer only after the
\* Retriever exchange has returned.
C13_StagesInOrder ==
  /\ Len(stages) <= Len(StageOrder)
  /\ \A i \in DOMAIN stages : stages[i] = StageOrder[i]
  /\ pc = "initiate" =>
       /\ stages = <<"reset">>
       /\ \A a \in Agents : agent_state[a] = "clean"
  /\ (Has(stages, "extract") \/ Has(stages, "retriever")) => ended_by # "none"
  /\ Has(stages, "composer") =>
       /\ rag_result # PyNone
       /\ ~EmptyResult(rag_result)
  /\ final_result # PyNone => Has(stages, "composer")
  /\ \A i \in DOMAIN printed :
       printed[i].text = "Final Product Recommendations:\n" =>
         /\ i = Len(printed)
         /\ stages = StageOrder
         /\ pc = "input"

\* a run went through all the stages and printed its recommendations
C13_Witness ==
  /\ pc = "input"
  /\ stages = StageOrder
  /\ LastPrinted = "Final Product Recommendations:\n"

\* ---------------------------------------------------------------- C14
\* the content of the last message of an exchange's result, none when the
\* result has no message or the message no content
LastContent(r) ==
  IF r = PyNone THEN PyNone
  ELSE IF r.chat_history = <<>> THEN PyNone
  ELSE LET m == r.chat_history[Len(r.chat_history)] IN
       IF "content" \in DOMAIN m THEN m.content ELSE PyNone

\* the Retriever exchange of the run returned a non-empty last-message
\* content and no stage raised
RetrievedProducts ==
  /\ Has(stages, "retriever")
  /\ ~EmptyResult(rag_result)
  /\ raised = NoExc

\* the run stands at PRODUCTS_RETRIEVED: the products are printed and the
\* Composer is the next thing invoked
ProductsRetrieved ==
  /\ pc = "compose"
  /\ stages = SubSeq(StageOrder, 1, 4)
  /\ retrieved_content = LastContent(rag_result)
  /\ printed[Len(printed)] = Out("Retrieved products: ", LastContent(rag_result))

\* C14 as stated: after a non-empty retrieval the run stands at
\* PRODUCTS_RETRIEVED or has invoked the Composer and ended, the last thing
\* printed being the Composer's last-message content.
C14_PrintsComposerContent ==
  RetrievedProducts =>
    \/ ProductsRetrieved
    \/ /\ pc = "input"
       /\ stages = StageOrder
       /\ printed[Len(printed)] =
            Out("Final Product Recommendations:\n", LastContent(final_result))

\* C14, amended: after a non-empty retrieval the run stands at
\* PRODUCTS_RETRIEVED or has invoked the Composer and ended, the last thing
\* printed being the Composer's last-message content when that is non-empty
\* and the text "No recommendations found." when it is empty or absent.
C14_PrintsRecommendations ==
  RetrievedProducts =>
    \/ ProductsRetrieved
    \/ /\ pc = "input"
       /\ stages = StageOrder
       /\ printed[Len(printed)] =
            Out("Final Product Recommendations:\n",
                IF EmptyResult(final_result)
                  THEN PyStr(<<"No recommendations found.">>)
                  ELSE LastContent(final_result))

\* a run ended after a Composer exchange that returned no content
C14_Witness ==
  /\ pc = "input"
  /\ RetrievedProducts
  /\ stages = StageOrder
  /\ EmptyResult(final_result)
  /\ printed[Len(printed)].arg = PyStr(<<"No recommendations found.">>)

\* ---------------------------------------------------------------- C15
\* C15: the one message handed to the Composer is "User preferences: P"
\* followed by "Retrieved products: R", P being the Preference Set this run
\* extracted from its own transcript and printed, R the last-message content
\* this run's Retriever exchange returned.
C15_ComposerMessage ==
  (Has(stages, "composer") /\ raised = NoExc) =>
    /\ Len(messages) = 1
    /\ msg_run = <<started>>
    /\ read_runs = [i \in DOMAIN read_transcript |-> started]
    /\ \E i \in DOMAIN printed :
         /\ printed[i].text = "User preferences: "
         /\ printed[i].arg = extract_preferences_from_messages(read_transcript)
         /\ messages[1].content =
              PyStr(<<"User preferences: ">> \o printed[i].arg.s
                    \o <<"\nRetrieved products: ">> \o LastContent(rag_result).s)

\* the second run of a session has handed its message to the Composer
C15_Witness ==
  /\ Has(stages, "composer")
  /\ raised = NoExc
  /\ started = 2
  /\ completed = 2

\* ---------------------------------------------------------------- C16
\* C16: every run terminates. The Collector exchange never goes beyond the
\* round limit, its transcript never beyond that many messages, and a run
\* under way always comes to its end: control is back in the session loop
\* with the run completed, or an exception no handler catches has ended the
\* process.
C16_RunTerminates ==
  /\ [](round <= max_round /\ Len(messages) <= max_round)
  /\ (pc \in FlowPcs) ~>
       \/ pc = "input" /\ completed = started
       \/ pc = "crashed" /\ ~Caught(raised.kind)

\* a Collector exchange used up its rounds without the marker and the run
\* ended with the report that no preferences were found
C16_Witness ==
  /\ pc = "input"
  /\ completed = started
  /\ ended_by = "max_round"
  /\ Len(read_transcript) = max_round
  /\ LastPrinted = UnableText

\* ---------------------------------------------------------------- C17
\* C17: the extraction test is at least as strict as the termination test:
\* every message that has the marker and the colon, case-sensitively, is a
\* termination message, and a Preference Set that was derived comes from
\* such a message.
C17_ExtractionImpliesTermination ==
  pc = "pure_done" =>
    /\ \A i \in WithColon(messages) : is_termination_message(messages[i])
    /\ preferences # PyNone =>
         /\ WithColon(messages) # {}
         /\ LET m == messages[Least(WithColon(messages))] IN
            /\ is_termination_message(m)
            /\ \/ preferences = m.content
               \/ \E j \in Occurrences(Content(m)) :
                    preferences = PyStr(After(Content(m), j))

\* preferences derived from the second message, after a first one that is a
\* termination message without being one the extraction accepts
C17_Witness ==
  /\ pc = "pure_done"
  /\ preferences # PyNone
  /\ Len(messages) >= 2
  /\ Least(WithColon(messages)) = 2
  /\ is_termination_message(messages[1])

\* ---------------------------------------------------------------- C18
\* the four terminal outcomes a run reports
TerminalTexts ==
  {UnableText, NoProductsText, "Final Product Recommendations:\n", ErrorText}

\* the terminal outcomes printed since the last line was read
Reports == {i \in DOMAIN printed : printed[i].text \in TerminalTexts}

\* a run was started by the last line read and is over
RunOver == stages # <<>> /\ pc \notin FlowPcs

\* C18 as stated: every run that is over has reported exactly one of the four
\* terminal outcomes.
C18_AlwaysOneOutcome ==
  /\ Cardinality(Reports) <= 1
  /\ RunOver => Cardinality(Reports) = 1

\* C18, amended: no run reports two terminal outcomes or one before its end;
\* a run that returns to the session loop has reported exactly one, the last
\* thing it printed; a run ended by an exception that is not an Exception
\* (KeyboardInterrupt, SystemExit) has reported none and the process is over.
C18_OneOutcome ==
  /\ Cardinality(Reports) <= 1
  /\ pc \in FlowPcs => Reports = {}
  /\ (RunOver /\ pc = "input") =>
       /\ Reports = {Len(printed)}
       /\ completed = started
  /\ (RunOver /\ pc # "input") =>
       /\ pc = "crashed"
       /\ ~Caught(raised.kind)
       /\ Reports = {}

\* a run ended without a report: the Retriever exchange was interrupted
C18_Witness ==
  /\ RunOver
  /\ pc = "crashed"
  /\ raised = [stage |-> "retriever", kind |-> "KeyboardInterrupt"]
  /\ Reports = {}

\* ---------------------------------------------------------------- C19
\* C19: the Preference Set the extraction returns never contains the split
\* literal "CHECKING PRODUCTS BASED ON: " (marker, colon, blank), however many
\* times the literal occurs in the message it is taken from.
C19_NoLiteralInPreferences ==
  (pc = "pure_done" /\ preferences # PyNone) =>
    /\ preferences.t = "str"
    /\ Occurrences(preferences.s) = {}
    /\ ~Contains(preferences.s, SplitLiteral)

\* preferences taken from a single message in which the literal occurs more
\* than once
C19_Witness ==
  /\ pc = "pure_done"
  /\ preferences # PyNone
  /\ Len(messages) = 1
  /\ Cardinality(Occurrences(Content(messages[1]))) >= 2

====
